---- MODULE Spec2Model ----
(***************************************************************************)
(* Coaching-page Worker (src/src/index.js): the fetch handler grants a     *)
(* per-identity exception on a Gateway rule and tracks the rule id in KV;  *)
(* the scheduled handler empties the identity of every tracked rule and    *)
(* deletes the tracked ids.                                                 *)
(*                                                                         *)
(* Strings the code parses are sequences of tokens: one token is one       *)
(* character of the grammar (quote, space, brace, dollar) or an opaque     *)
(* piece of text without any of them.                                      *)
(***************************************************************************)
EXTENDS Integers, Sequences, FiniteSets, TLC

\* ------------------------------------------------------------------------
\* Tokens of an identity expression
\* ------------------------------------------------------------------------
Q == "\""
SP == " "
LB == "{"
RB == "}"
DOLLAR == "$"
NOTOPEN == "not("
FIELD == "identity.email in "
GROUPFIELD == "identity.groups.name in "
CLOSE == ")"

\* s.includes(pat)
Includes(s, pat) ==
    \E i \in 1..(Len(s) - Len(pat) + 1) : SubSeq(s, i, i + Len(pat) - 1) = pat

SetMin(S) == CHOOSE x \in S : \A y \in S : x <= y

\* ------------------------------------------------------------------------
\* const regex = /\{"([^"]+(?:"\s*"[^"]+)*)"\}/
\* ------------------------------------------------------------------------
\* [^"]+ from position k: the first position that holds a quote (or Len+1)
RECURSIVE RunEnd(_, _)
RunEnd(s, k) == IF k > Len(s) \/ s[k] = Q THEN k ELSE RunEnd(s, k + 1)

\* \s* from position k
RECURSIVE SkipSpace(_, _)
SkipSpace(s, k) == IF k <= Len(s) /\ s[k] = SP THEN SkipSpace(s, k + 1) ELSE k

\* [^"]+(?:"\s*"[^"]+)*"\} from position k: the position of the closing
\* brace, 0 when there is no match
RECURSIVE ListEnd(_, _)
ListEnd(s, k) ==
    LET p == RunEnd(s, k) IN
    IF p = k \/ p > Len(s) THEN 0
    ELSE IF p + 1 <= Len(s) /\ s[p + 1] = RB THEN p + 1
    ELSE LET q == SkipSpace(s, p + 1) IN
         IF q <= Len(s) /\ s[q] = Q THEN ListEnd(s, q + 1) ELSE 0

MatchAt(s, i) ==
    IF i + 1 <= Len(s) /\ s[i] = LB /\ s[i + 1] = Q THEN ListEnd(s, i + 2) ELSE 0

NoMatch == [index |-> 0, last |-> 0, group1 |-> <<>>]

\* currentIdentityExpression.match(regex): the leftmost match
RegexMatch(s) ==
    LET starts == {i \in 1..Len(s) : MatchAt(s, i) # 0} IN
    IF starts = {} THEN NoMatch
    ELSE LET i == SetMin(starts) IN
         [index |-> i, last |-> MatchAt(s, i),
          group1 |-> SubSeq(s, i + 2, MatchAt(s, i) - 2)]

\* existingEmailsString.split('" "')
RECURSIVE Split(_)
Split(s) ==
    LET hits == {i \in 1..(Len(s) - 2) : SubSeq(s, i, i + 2) = <<Q, SP, Q>>} IN
    IF hits = {} THEN <<s>>
    ELSE LET i == SetMin(hits) IN
         <<SubSeq(s, 1, i - 1)>> \o Split(SubSeq(s, i + 3, Len(s)))

\* .filter(Boolean).map(e => `"${e}"`)
RECURSIVE QuoteAll(_)
QuoteAll(parts) ==
    IF parts = <<>> THEN <<>>
    ELSE IF Head(parts) = <<>> THEN QuoteAll(Tail(parts))
    ELSE <<(<<Q>> \o Head(parts) \o <<Q>>)>> \o QuoteAll(Tail(parts))

\* existingEmails.map(e => e.slice(1, -1)).join('" "')
RECURSIVE JoinSliced(_)
JoinSliced(quoted) ==
    IF quoted = <<>> THEN <<>>
    ELSE LET e == SubSeq(Head(quoted), 2, Len(Head(quoted)) - 1) IN
         IF Len(quoted) = 1 THEN e
         ELSE e \o <<Q, SP, Q>> \o JoinSliced(Tail(quoted))

\* A replacement string given to String.prototype.replace: "$$" inserts one
\* "$" (the other patterns need characters that are no token here)
RECURSIVE Expand(_)
Expand(r) ==
    IF r = <<>> THEN <<>>
    ELSE IF Len(r) >= 2 /\ r[1] = DOLLAR /\ r[2] = DOLLAR
         THEN <<DOLLAR>> \o Expand(SubSeq(r, 3, Len(r)))
    ELSE <<r[1]>> \o Expand(Tail(r))

\* currentIdentityExpression.replace(regex, replacement)
Replace(s, replacement) ==
    LET m == RegexMatch(s) IN
    IF m.index = 0 THEN s
    ELSE SubSeq(s, 1, m.index - 1) \o Expand(replacement)
         \o SubSeq(s, m.last + 1, Len(s))

\* ------------------------------------------------------------------------
\* fetch, lines 56-95: the update of the rule's identity field
\* ------------------------------------------------------------------------
NoWarning == "none"
ParseWarning == "Warning: Could not parse rule identity expression."
FormatWarning == "Warning: Rule identity field not in expected format."

MergeIdentity(currentIdentityExpression, cfUserEmail) ==
    LET newEmailToAdd == <<Q>> \o cfUserEmail \o <<Q>>
        match == RegexMatch(currentIdentityExpression)
        existingEmails == QuoteAll(Split(match.group1))
        present == \E k \in 1..Len(existingEmails) : existingEmails[k] = newEmailToAdd
        updatedEmailsString == JoinSliced(Append(existingEmails, newEmailToAdd))
    IN
    IF currentIdentityExpression = <<>>
    THEN [identity |-> <<NOTOPEN, FIELD, LB>> \o newEmailToAdd \o <<RB, CLOSE>>,
          ruleIdentityActuallyModified |-> TRUE, warning |-> NoWarning]
    ELSE IF Includes(currentIdentityExpression, <<FIELD, LB>>)
    THEN IF match.index # 0 /\ match.group1 # <<>>
         THEN IF ~present
              THEN [identity |-> Replace(currentIdentityExpression,
                                         <<LB, Q>> \o updatedEmailsString \o <<Q, RB>>),
                    ruleIdentityActuallyModified |-> TRUE, warning |-> NoWarning]
              ELSE [identity |-> currentIdentityExpression,
                    ruleIdentityActuallyModified |-> FALSE, warning |-> NoWarning]
         ELSE [identity |-> currentIdentityExpression,
               ruleIdentityActuallyModified |-> FALSE, warning |-> ParseWarning]
    ELSE [identity |-> currentIdentityExpression,
          ruleIdentityActuallyModified |-> FALSE, warning |-> FormatWarning]

\* ------------------------------------------------------------------------
\* Bounds and input sets
\* ------------------------------------------------------------------------
\* cf_rule_id values, in the order in which KV lists its keys; 0 is a missing
\* query parameter
RuleIds == {1, 2}
NoRuleId == 0

\* cf_user_email values; the empty sequence is a missing query parameter
Identities == {<<"a@x.com">>, <<"b@x.com">>}
NoEmail == <<>>

\* the fetch invocations of one behaviour, in the order in which they start
Grants == {1, 2}

\* fetch and scheduled invocations in one behaviour
MaxInvocations == 3
\* keys in one page of GATEWAY_RULE_IDS_KV.list
PageLimit == 1

\* identity expressions a rule holds before the first grant: none, or one
\* set by an administrator that names no email list
AdminExpression == <<GROUPFIELD, LB, Q, "staff", Q, RB>>
InitialExpressions == {<<>>, AdminExpression}

AllSet == [API_KEY |-> TRUE, USER_EMAIL |-> TRUE, ACCOUNT_ID |-> TRUE,
           GATEWAY_RULE_IDS_KV |-> TRUE]
Envs == {AllSet,
         [AllSet EXCEPT !.API_KEY = FALSE],
         [AllSet EXCEPT !.USER_EMAIL = FALSE],
         [AllSet EXCEPT !.ACCOUNT_ID = FALSE],
         [AllSet EXCEPT !.GATEWAY_RULE_IDS_KV = FALSE]}

VARIABLES
    env,       \* the Worker's bindings and secrets
    rules,     \* Rule Store: rule id -> identity expression
    kv,        \* Tracking Store: rule id -> entry, or NoEntry
    req,       \* the fetch invocations: position and locals of each
    pending,   \* KV puts handed to ctx.waitUntil and not yet settled
    sw,        \* the scheduled invocation: position and locals
    runs,      \* scheduled invocations started so far
    alone,     \* no fetch was in progress, and no put pending, since the
               \* latest scheduled invocation started
    prev,      \* what the previous scheduled invocation left behind
    mIn,       \* the merge in isolation: the expression given, by its parts
    mTrace     \* the merge in isolation: the merges applied so far

grantVars == <<env, rules, kv, req, pending, sw, runs, alone, prev>>
mergeVars == <<mIn, mTrace>>
vars == <<env, rules, kv, req, pending, sw, runs, alone, prev, mIn, mTrace>>

EmptyInput == [prefix |-> <<>>, emails |-> <<>>, sep |-> <<>>, suffix |-> <<>>]

NoEntry == [firstTrackedAt |-> 0, firstUserEmail |-> NoEmail]

NoRuleStatus == "No Gateway rule update attempted."
NoKvStatus == "No KV store update attempted."
Skipped == "Skipped: Missing parameters or config."
GetError == "Error getting Gateway Rule"
NotFound == "Error: Existing rule not found."
PutError == "Error updating Gateway Rule"
PutSuccess == "Successfully updated Gateway Rule"
ApiError == "API Error"
KvTracked == "Rule ID already tracked in KV."
KvStored == "Rule ID stored in KV."
KvError == "KV Error"
KvNotConfigured == "KV store not configured for tracking rule IDs."

IdleReq == [pc |-> "idle", cfUserEmail |-> NoEmail, cfRuleId |-> NoRuleId,
            updatedRulePayload |-> <<>>, ruleIdentityActuallyModified |-> FALSE,
            gatewayRuleUpdateStatus |-> NoRuleStatus, kvStoreStatus |-> NoKvStatus]

NoTask == [st |-> "none", payload |-> <<>>]
IdleSweep == [pc |-> "idle", cursor |-> 0, kvKeysToDelete |-> <<>>,
              task |-> [id \in RuleIds |-> NoTask],
              del |-> [id \in RuleIds |-> "none"],
              listed |-> FALSE]

NoPrev == [alone |-> FALSE, clean |-> FALSE, enumerated |-> 0]

Init ==
    /\ env \in Envs
    /\ \E e \in InitialExpressions : rules = [id \in RuleIds |-> e]
    /\ kv = [id \in RuleIds |-> NoEntry]
    /\ req = [g \in Grants |-> IdleReq]
    /\ pending = {}
    /\ sw = IdleSweep
    /\ runs = 0
    /\ alone = TRUE
    /\ prev = NoPrev
    /\ mIn = EmptyInput
    /\ mTrace = <<>>

\* ------------------------------------------------------------------------
\* fetch
\* ------------------------------------------------------------------------
\* The fetch invocations started so far; new Date() is read off this count
Started == Cardinality({g \in Grants : req[g].pc # "idle"})

ParamsAndConfig_AnyEmail(cfUserEmail, cfRuleId, e) ==
    /\ cfRuleId # NoRuleId
    /\ e.API_KEY /\ e.USER_EMAIL /\ e.ACCOUNT_ID

\* line 27
ParamsAndConfig(cfUserEmail, cfRuleId, e) ==
    /\ cfUserEmail # NoEmail
    /\ cfRuleId # NoRuleId
    /\ e.API_KEY /\ e.USER_EMAIL /\ e.ACCOUNT_ID

\* lines 13-27, 153-157: the request arrives; with the parameters and the
\* credentials present the GET of the rule is sent
FetchStart(g) ==
    /\ req[g].pc = "idle"
    /\ \A h \in Grants : h < g => req[h].pc # "idle"
    /\ Started + runs < MaxInvocations
    /\ \E cfUserEmail \in Identities \cup {NoEmail}, cfRuleId \in RuleIds \cup {NoRuleId} :
          req' = [req EXCEPT ![g] =
                    IF ParamsAndConfig(cfUserEmail, cfRuleId, env)
                    THEN [IdleReq EXCEPT !.pc = "get", !.cfUserEmail = cfUserEmail,
                                         !.cfRuleId = cfRuleId]
                    ELSE [IdleReq EXCEPT !.pc = "done", !.cfUserEmail = cfUserEmail,
                                         !.cfRuleId = cfRuleId,
                                         !.gatewayRuleUpdateStatus = Skipped,
                                         !.kvStoreStatus = Skipped]]
    /\ alone' = FALSE
    /\ UNCHANGED <<env, rules, kv, pending, sw, runs, prev, mergeVars>>

OnApiError_Rethrow(r) == [r EXCEPT !.pc = "crashed"]

\* lines 120-123: the catch around the GET and the PUT
OnApiError(r) == [r EXCEPT !.pc = "kv", !.gatewayRuleUpdateStatus = ApiError]

\* lines 33-95: the GET settles; the identity field of the copy is updated
\* and the PUT is sent
FetchGetRule(g) ==
    /\ req[g].pc = "get"
    /\ \E outcome \in {"ok", "status", "norule", "throw"} :
          req' = [req EXCEPT ![g] =
             CASE outcome = "throw" -> OnApiError(@)
               [] outcome = "status" ->
                    [@ EXCEPT !.pc = "kv", !.gatewayRuleUpdateStatus = GetError]
               [] outcome = "norule" ->
                    [@ EXCEPT !.pc = "kv", !.gatewayRuleUpdateStatus = NotFound]
               [] outcome = "ok" ->
                    LET m == MergeIdentity(rules[@.cfRuleId], @.cfUserEmail) IN
                    [@ EXCEPT !.pc = "put",
                              !.updatedRulePayload = m.identity,
                              !.ruleIdentityActuallyModified = m.ruleIdentityActuallyModified,
                              !.gatewayRuleUpdateStatus =
                                  IF m.warning = NoWarning THEN @ ELSE m.warning]]
    /\ UNCHANGED <<env, rules, kv, pending, sw, runs, alone, prev, mergeVars>>

FetchPutRule_Remerge(g) ==
    /\ req[g].pc = "put"
    /\ \E outcome \in {"ok", "status", "throw"} :
          /\ req' = [req EXCEPT ![g] =
                CASE outcome = "throw" -> OnApiError(@)
                  [] outcome = "status" ->
                       [@ EXCEPT !.pc = "kv", !.gatewayRuleUpdateStatus = PutError]
                  [] outcome = "ok" ->
                       [@ EXCEPT !.pc = "kv", !.gatewayRuleUpdateStatus = PutSuccess]]
          /\ rules' = IF outcome = "ok"
                      THEN [rules EXCEPT ![req[g].cfRuleId] =
                               MergeIdentity(@, req[g].cfUserEmail).identity]
                      ELSE rules
    /\ UNCHANGED <<env, kv, pending, sw, runs, alone, prev, mergeVars>>

\* lines 97-117: the PUT settles
FetchPutRule(g) ==
    /\ req[g].pc = "put"
    /\ \E outcome \in {"ok", "status", "throw"} :
          /\ req' = [req EXCEPT ![g] =
                CASE outcome = "throw" -> OnApiError(@)
                  [] outcome = "status" ->
                       [@ EXCEPT !.pc = "kv", !.gatewayRuleUpdateStatus = PutError]
                  [] outcome = "ok" ->
                       [@ EXCEPT !.pc = "kv", !.gatewayRuleUpdateStatus = PutSuccess]]
          /\ rules' = IF outcome = "ok"
                      THEN [rules EXCEPT ![req[g].cfRuleId] = req[g].updatedRulePayload]
                      ELSE rules
    /\ UNCHANGED <<env, kv, pending, sw, runs, alone, prev, mergeVars>>

AlreadyTracked_Always(existingKvEntry) == TRUE

AlreadyTracked_Never(existingKvEntry) == FALSE

\* line 131
AlreadyTracked(existingKvEntry) == existingKvEntry # NoEntry

\* lines 144-147: the catch around the KV get
OnKvError(r) == [r EXCEPT !.pc = "done", !.kvStoreStatus = KvError]

\* lines 127-151: the KV get settles; a put of a new id goes to ctx.waitUntil
FetchKv(g) ==
    /\ req[g].pc = "kv"
    /\ IF ~env.GATEWAY_RULE_IDS_KV
       THEN /\ req' = [req EXCEPT ![g].pc = "done", ![g].kvStoreStatus = KvNotConfigured]
            /\ UNCHANGED pending
       ELSE \E outcome \in {"ok", "throw"} :
            IF outcome = "throw"
            THEN /\ req' = [req EXCEPT ![g] = OnKvError(@)]
                 /\ UNCHANGED pending
            ELSE IF AlreadyTracked(kv[req[g].cfRuleId])
            THEN /\ req' = [req EXCEPT ![g].pc = "done", ![g].kvStoreStatus = KvTracked]
                 /\ UNCHANGED pending
            ELSE /\ req' = [req EXCEPT ![g].pc = "done", ![g].kvStoreStatus = KvStored]
                 /\ pending' = pending \cup
                       {[key |-> req[g].cfRuleId, by |-> g,
                         value |-> [firstTrackedAt |-> Started,
                                    firstUserEmail |-> req[g].cfUserEmail]]}
    /\ UNCHANGED <<env, rules, kv, sw, runs, alone, prev, mergeVars>>

\* lines 300-302: the response is returned
FetchRespond(g) ==
    /\ req[g].pc = "done"
    /\ req' = [req EXCEPT ![g] = [IdleReq EXCEPT !.pc = "returned"]]
    /\ UNCHANGED <<env, rules, kv, pending, sw, runs, alone, prev, mergeVars>>

WaitUntilPut_UntilResponse ==
    /\ \E p \in pending, outcome \in {"ok", "rejected"} :
          /\ req[p.by].pc # "returned"
          /\ pending' = pending \ {p}
          /\ kv' = IF outcome = "ok" THEN [kv EXCEPT ![p.key] = p.value] ELSE kv
    /\ UNCHANGED <<env, rules, req, sw, runs, alone, prev, mergeVars>>

\* lines 137-140: a put handed to ctx.waitUntil settles
WaitUntilPut ==
    /\ \E p \in pending, outcome \in {"ok", "rejected"} :
          /\ pending' = pending \ {p}
          /\ kv' = IF outcome = "ok" THEN [kv EXCEPT ![p.key] = p.value] ELSE kv
    /\ UNCHANGED <<env, rules, req, sw, runs, alone, prev, mergeVars>>

\* ------------------------------------------------------------------------
\* scheduled
\* ------------------------------------------------------------------------
\* lines 318-325
SweepConfig(e) == e.GATEWAY_RULE_IDS_KV /\ e.API_KEY /\ e.ACCOUNT_ID /\ e.USER_EMAIL

\* The keys KV holds after the cursor, in key order
KeysAfter(store, cursor) == {id \in RuleIds : id > cursor /\ store[id] # NoEntry}

\* listResult.keys: at most PageLimit keys after the cursor, in key order
RECURSIVE Page(_, _, _)
Page(store, cursor, n) ==
    IF n = 0 \/ KeysAfter(store, cursor) = {} THEN <<>>
    ELSE LET k == SetMin(KeysAfter(store, cursor)) IN
         <<k>> \o Page(store, k, n - 1)

ResetPayload_Keep(existingRule) == existingRule

\* lines 374-375: the copy of the rule with its identity emptied
ResetPayload(existingRule) == <<>>

KeysToDelete_None(kvKeysToDelete) == {}

\* line 414: the ids of which the tracking entries are deleted
KeysToDelete(kvKeysToDelete) == {kvKeysToDelete[i] : i \in 1..Len(kvKeysToDelete)}

Launched_Lazy(tasks, keys) == tasks

\* lines 343-347: a key of the page is recorded and its task started
Launched(tasks, keys) ==
    [id \in RuleIds |->
        IF \E i \in 1..Len(keys) : keys[i] = id
        THEN [st |-> "get", payload |-> <<>>] ELSE tasks[id]]

\* lines 314-332: the cron trigger fires
ScheduledStart ==
    /\ sw.pc \in {"idle", "done"}
    /\ Started + runs < MaxInvocations
    /\ runs' = runs + 1
    /\ sw' = IF SweepConfig(env) THEN [IdleSweep EXCEPT !.pc = "list"]
                                 ELSE [IdleSweep EXCEPT !.pc = "done"]
    /\ prev' = [alone |-> sw.pc = "done" /\ alone,
                enumerated |-> Len(sw.kvKeysToDelete),
                clean |-> /\ sw.pc = "done"
                          /\ sw.listed
                          /\ \A id \in RuleIds : sw.del[id] \in {"none", "deleted"}]
    /\ alone' = ((\A g \in Grants : req[g].pc \in {"idle", "returned"}) /\ pending = {})
    /\ UNCHANGED <<env, rules, kv, req, pending, mergeVars>>

ScheduledList_Abort ==
    /\ sw.pc = "list"
    /\ \E outcome \in {"ok", "throw"} :
          IF outcome = "throw"
          THEN sw' = [sw EXCEPT !.pc = "done"]
          ELSE LET keys == Page(kv, sw.cursor, PageLimit)
                   cursor == IF keys = <<>> THEN sw.cursor ELSE keys[Len(keys)]
                   list_complete == KeysAfter(kv, cursor) = {}
               IN sw' = [sw EXCEPT !.cursor = cursor,
                                   !.kvKeysToDelete = @ \o keys,
                                   !.task = Launched(@, keys),
                                   !.listed = list_complete,
                                   !.pc = IF list_complete THEN "await" ELSE "list"]
    /\ UNCHANGED <<env, rules, kv, req, pending, runs, alone, prev, mergeVars>>

\* lines 335-347, 403-405: one page of keys is listed; each key is recorded
\* and its reset task sends its GET at once
ScheduledList ==
    /\ sw.pc = "list"
    /\ \E outcome \in {"ok", "throw"} :
          IF outcome = "throw"
          THEN sw' = [sw EXCEPT !.pc = "await"]
          ELSE LET keys == Page(kv, sw.cursor, PageLimit)
                   cursor == IF keys = <<>> THEN sw.cursor ELSE keys[Len(keys)]
                   list_complete == KeysAfter(kv, cursor) = {}
               IN sw' = [sw EXCEPT !.cursor = cursor,
                                   !.kvKeysToDelete = @ \o keys,
                                   !.task = Launched(@, keys),
                                   !.listed = list_complete,
                                   !.pc = IF list_complete THEN "await" ELSE "list"]
    /\ UNCHANGED <<env, rules, kv, req, pending, runs, alone, prev, mergeVars>>

TaskGetRule_FailFast(id) ==
    /\ sw.task[id].st = "get"
    /\ \E outcome \in {"ok", "status", "norule", "throw"} :
          sw' = IF outcome = "ok"
                THEN [sw EXCEPT !.task[id] =
                         [st |-> "put", payload |-> ResetPayload(rules[id])]]
                ELSE [sw EXCEPT !.task =
                         [other \in RuleIds |->
                             IF sw.task[other].st \in {"get", "put"}
                             THEN [st |-> "skipped", payload |-> <<>>]
                             ELSE sw.task[other]]]
    /\ UNCHANGED <<env, rules, kv, req, pending, runs, alone, prev, mergeVars>>

\* lines 348-389, 397-399: the GET of a reset task settles; the PUT is sent
TaskGetRule(id) ==
    /\ sw.task[id].st = "get"
    /\ \E outcome \in {"ok", "status", "norule", "throw"} :
          sw' = [sw EXCEPT !.task[id] =
                    IF outcome = "ok"
                    THEN [st |-> "put", payload |-> ResetPayload(rules[id])]
                    ELSE [st |-> "skipped", payload |-> <<>>]]
    /\ UNCHANGED <<env, rules, kv, req, pending, runs, alone, prev, mergeVars>>

\* lines 381-399: the PUT of a reset task settles
TaskPutRule(id) ==
    /\ sw.task[id].st = "put"
    /\ \E outcome \in {"ok", "status", "throw"} :
          /\ sw' = [sw EXCEPT !.task[id].st = IF outcome = "ok" THEN "reset" ELSE "putfailed"]
          /\ rules' = IF outcome = "ok" THEN [rules EXCEPT ![id] = sw.task[id].payload]
                                        ELSE rules
    /\ UNCHANGED <<env, kv, req, pending, runs, alone, prev, mergeVars>>

TasksSettled_First == \E id \in RuleIds : sw.task[id].st \notin {"get", "put"}

TasksSettled_AllReset == \A id \in RuleIds : sw.task[id].st \in {"none", "reset"}

TasksSettled == \A id \in RuleIds : sw.task[id].st \notin {"get", "put"}

\* lines 408-423: every reset task has settled; the deletes are sent
ScheduledDelete ==
    /\ sw.pc = "await"
    /\ TasksSettled
    /\ sw' = IF Len(sw.kvKeysToDelete) > 0
             THEN [sw EXCEPT !.pc = "delete",
                             !.del = [id \in RuleIds |->
                                        IF id \in KeysToDelete(sw.kvKeysToDelete)
                                        THEN "pending" ELSE "none"]]
             ELSE [sw EXCEPT !.pc = "done"]
    /\ UNCHANGED <<env, rules, kv, req, pending, runs, alone, prev, mergeVars>>

\* line 414: one delete settles
DeleteSettle(id) ==
    /\ sw.del[id] = "pending"
    /\ \E outcome \in {"ok", "rejected"} :
          /\ sw' = [sw EXCEPT !.del[id] = IF outcome = "ok" THEN "deleted" ELSE "failed"]
          /\ kv' = IF outcome = "ok" THEN [kv EXCEPT ![id] = NoEntry] ELSE kv
    /\ UNCHANGED <<env, rules, req, pending, runs, alone, prev, mergeVars>>

\* lines 416-425: every delete has settled
ScheduledFinish ==
    /\ sw.pc = "delete"
    /\ \A id \in RuleIds : sw.del[id] # "pending"
    /\ sw' = [sw EXCEPT !.pc = "done"]
    /\ UNCHANGED <<env, rules, kv, req, pending, runs, alone, prev, mergeVars>>

Next ==
    \/ \E g \in Grants : FetchStart(g)
    \/ \E g \in Grants : FetchGetRule(g)
    \/ \E g \in Grants : FetchPutRule(g)
    \/ \E g \in Grants : FetchKv(g)
    \/ \E g \in Grants : FetchRespond(g)
    \/ WaitUntilPut
    \/ ScheduledStart
    \/ ScheduledList
    \/ \E id \in RuleIds : TaskGetRule(id)
    \/ \E id \in RuleIds : TaskPutRule(id)
    \/ ScheduledDelete
    \/ \E id \in RuleIds : DeleteSettle(id)
    \/ ScheduledFinish

Spec == Init /\ [][Next]_vars

\* ctx.waitUntil keeps a put alive after the response (line 137), and every
\* call the scheduled handler awaits returns or fails (lines 335, 348, 381,
\* 408, 416): such a step, once possible, is taken. Nothing is assumed of the
\* arrival of requests, of the cron trigger, or of the calls fetch awaits.
Fairness ==
    /\ WF_vars(WaitUntilPut)
    /\ WF_vars(ScheduledList)
    /\ \A id \in RuleIds : /\ WF_vars(TaskGetRule(id))
                           /\ WF_vars(TaskPutRule(id))
                           /\ WF_vars(DeleteSettle(id))
    /\ WF_vars(ScheduledDelete)
    /\ WF_vars(ScheduledFinish)

\* Every binding and secret set, and rules without an identity expression
InitLive == Init /\ env = AllSet /\ rules = [id \in RuleIds |-> <<>>]

SpecLive == InitLive /\ [][Next]_vars /\ Fairness

\* ------------------------------------------------------------------------
\* The update of the identity field in isolation (fetch, lines 56-95)
\* ------------------------------------------------------------------------
\* merges applied to one expression
MaxMerges == 2
\* emails in the list of a given expression
MaxList == 2

\* emails: two plain ones, and two that hold the character "$"
MergeEmails == {<<"a@x.com">>, <<"b@x.com">>, <<DOLLAR>>, <<DOLLAR, DOLLAR>>}

RECURSIVE Listed(_, _)
Listed(emails, sep) ==
    IF emails = <<>> THEN <<>>
    ELSE IF Len(emails) = 1 THEN <<Q>> \o Head(emails) \o <<Q>>
    ELSE <<Q>> \o Head(emails) \o <<Q>> \o sep \o Listed(Tail(emails), sep)

\* <prefix>{"e1" "e2" ...}<suffix>; no parts at all is the empty expression
Render(in) ==
    IF in = EmptyInput THEN <<>>
    ELSE in.prefix \o <<LB>> \o Listed(in.emails, in.sep) \o <<RB>> \o in.suffix

MergePrefixes == {<<NOTOPEN, FIELD>>,
                  <<FIELD>>,
                  <<NOTOPEN, GROUPFIELD>>,
                  <<GROUPFIELD, LB, Q, "staff", Q, RB, " and ", NOTOPEN, FIELD>>}
MergeSuffixes == {<<CLOSE>>, <<>>}
MergeSeps == {<<SP>>, <<>>, <<SP, SP>>}

MergeInputs ==
    {EmptyInput} \cup
    {[prefix |-> p, emails |-> l, sep |-> sp, suffix |-> sf] :
        p \in MergePrefixes,
        l \in UNION {[1..n -> MergeEmails] : n \in 0..MaxList},
        sp \in MergeSeps, sf \in MergeSuffixes}

InitMerge ==
    /\ env = AllSet
    /\ rules = [id \in RuleIds |-> <<>>]
    /\ kv = [id \in RuleIds |-> NoEntry]
    /\ req = [g \in Grants |-> IdleReq]
    /\ pending = {}
    /\ sw = IdleSweep
    /\ runs = 0
    /\ alone = TRUE
    /\ prev = NoPrev
    /\ mIn \in MergeInputs
    /\ mTrace = <<>>

\* The expression the next merge is given: the one given at first, then the
\* one the previous merge produced
Current == IF mTrace = <<>> THEN Render(mIn) ELSE mTrace[Len(mTrace)].out.identity

MergeStep ==
    /\ Len(mTrace) < MaxMerges
    /\ \E cfUserEmail \in MergeEmails :
          mTrace' = Append(mTrace, [cfUserEmail |-> cfUserEmail,
                                    out |-> MergeIdentity(Current, cfUserEmail)])
    /\ UNCHANGED <<grantVars, mIn>>

SpecMerge == InitMerge /\ [][MergeStep]_vars

\* ------------------------------------------------------------------------
\* Properties of the update of the identity field
\* ------------------------------------------------------------------------
\* The expression of the grammar with one more email at the end of its list
Appended(in, cfUserEmail) ==
    IF in = EmptyInput
    THEN [prefix |-> <<NOTOPEN, FIELD>>, emails |-> <<cfUserEmail>>,
          sep |-> <<SP>>, suffix |-> <<CLOSE>>]
    ELSE [in EXCEPT !.emails = Append(@, cfUserEmail)]

\* The given expression is empty or <prefix>{"e1" "e2" ...}<suffix>
InGrammar(in) == in = EmptyInput \/ (Len(in.emails) >= 1 /\ in.sep = <<SP>>)

Holds(in, cfUserEmail) == \E k \in 1..Len(in.emails) : in.emails[k] = cfUserEmail

\* C3: merging an identity into the empty expression, or into an expression
\* of the grammar that does not hold it, yields the same prefix and suffix
\* around the previous emails, in their order, followed by the identity, and
\* reports a change.
C3_MergeAppends ==
    Len(mTrace) >= 1 =>
        LET cfUserEmail == mTrace[1].cfUserEmail IN
        (InGrammar(mIn) /\ ~Holds(mIn, cfUserEmail)) =>
            /\ mTrace[1].out.identity = Render(Appended(mIn, cfUserEmail))
            /\ mTrace[1].out.ruleIdentityActuallyModified

\* C4: merging the identity that the previous merge was given returns the
\* expression unchanged and reports no change.
C4_MergeIdempotent ==
    \A i \in 1..(Len(mTrace) - 1) :
        mTrace[i + 1].cfUserEmail = mTrace[i].cfUserEmail =>
            /\ mTrace[i + 1].out.identity = mTrace[i].out.identity
            /\ ~mTrace[i + 1].out.ruleIdentityActuallyModified

\* ------------------------------------------------------------------------
\* Properties of fetch and scheduled
\* ------------------------------------------------------------------------
Enumerated == KeysToDelete(sw.kvKeysToDelete)

MissingParamOrCredential(r) ==
    \/ r.cfUserEmail = NoEmail
    \/ r.cfRuleId = NoRuleId
    \/ ~env.API_KEY \/ ~env.USER_EMAIL \/ ~env.ACCOUNT_ID

InProgress(r) == r.pc \notin {"idle", "returned"}

C5_AsClaimed ==
    sw.pc = "list" => \A id \in RuleIds : sw.task[id].st = "none"

\* C5, amended: the reset task of an id is started, its GET sent, as soon as
\* the page that holds the id is read, before the next page is requested;
\* only started tasks' ids are recorded for deletion, and no Tracking Store
\* delete is sent before the listing is drained or has failed.
C5_TasksStartPerPage ==
    /\ \A id \in RuleIds : id \in Enumerated <=> sw.task[id].st # "none"
    /\ sw.pc = "list" => \A id \in RuleIds : sw.del[id] = "none"

C5_Witness ==
    /\ sw.pc = "list"
    /\ \E id \in Enumerated : sw.task[id].st \in {"put", "reset"}
    /\ KeysAfter(kv, sw.cursor) # {}

\* C6: a grant that finds an entry for its rule id in the Tracking Store
\* hands no put to the Tracking Store and leaves the stored entry as it is.
C6_TrackedMeansNoWrite ==
    [][\A g \in Grants :
          (/\ req[g].pc = "kv" /\ req'[g].pc = "done"
           /\ env.GATEWAY_RULE_IDS_KV
           /\ kv[req[g].cfRuleId] # NoEntry)
          => (/\ pending' = pending
              /\ kv' = kv
              /\ req'[g].kvStoreStatus \in {KvTracked, KvError})]_vars

C6_Witness ==
    \E g \in Grants :
        /\ req[g].pc = "done"
        /\ req[g].kvStoreStatus = KvTracked
        /\ kv[req[g].cfRuleId] # NoEntry
        /\ kv[req[g].cfRuleId].firstUserEmail # req[g].cfUserEmail
        /\ \A p \in pending : p.by # g

\* C7: a grant whose identity is already in the expression it read sends no
\* PUT to the Rule Store.
C7_NoPutWhenPresent ==
    \A g \in Grants :
        (req[g].pc = "put" /\ req[g].gatewayRuleUpdateStatus = NoRuleStatus)
            => req[g].ruleIdentityActuallyModified

\* The grant read an expression that is not empty and that the merge did not
\* recognize (the copy it holds is that expression, unchanged)
ReadUnrecognized(r) ==
    /\ r.pc \in {"put", "kv", "done"}
    /\ r.updatedRulePayload # <<>>
    /\ MergeIdentity(r.updatedRulePayload, r.cfUserEmail).warning # NoWarning

\* C8: a grant that read an expression it does not recognize sends no PUT to
\* the Rule Store and its rule-update status is the format warning.
C8_NoPutWhenUnrecognized ==
    \A g \in Grants :
        ReadUnrecognized(req[g]) =>
            /\ req[g].pc # "put"
            /\ req[g].gatewayRuleUpdateStatus \in {FormatWarning, ParseWarning}

NothingEnumerated ==
    /\ sw.kvKeysToDelete = <<>>
    /\ \A id \in RuleIds : sw.task[id].st = "none" /\ sw.del[id] = "none"

RuleStatuses == {Skipped, GetError, NotFound, PutError, PutSuccess, ApiError}
KvStatuses == {Skipped, KvTracked, KvStored, KvError, KvNotConfigured}

\* C10: no failure inside a grant escapes it: a grant never ends by an
\* exception, and when it is about to respond both statuses have been set.
C10_GrantAlwaysReturns ==
    \A g \in Grants :
        /\ req[g].pc \in {"idle", "get", "put", "kv", "done", "returned"}
        /\ req[g].pc = "done" =>
              /\ req[g].gatewayRuleUpdateStatus \in RuleStatuses
              /\ req[g].kvStoreStatus \in KvStatuses

C10_Witness ==
    \E g \in Grants :
        /\ req[g].pc = "done"
        /\ req[g].gatewayRuleUpdateStatus = ApiError
        /\ req[g].kvStoreStatus = KvError

\* ------------------------------------------------------------------------
\* The tracking write
\* ------------------------------------------------------------------------
\* The put that fetch invocation g handed to ctx.waitUntil has not settled
Writing(g) == \E p \in pending : p.by = g

GetFailed(r) ==
    /\ r.pc \in {"kv", "done"}
    /\ r.updatedRulePayload = <<>>
    /\ r.gatewayRuleUpdateStatus \in {GetError, NotFound, ApiError}

\* The put of r's rule id by fetch invocation g, as ctx.waitUntil holds it
PutOf(g, r) == {p \in pending : p.by = g /\ p.key = r.cfRuleId
                                 /\ p.value.firstUserEmail = r.cfUserEmail}

SweepStep == req' = req /\ pending' = pending

\* C13: in a sweep a reset task whose GET fails or finds no rule sends no PUT
\* and leaves its rule as it is; a step of one task, failed or not, leaves
\* every other task where it was, so that each enumerated rule has had its
\* own GET, and after a GET that returned a rule its own PUT, by the time the
\* deletes are sent.
C13_FailuresIsolated ==
    /\ [][\A id \in RuleIds :
            /\ (sw.task[id].st = "get" /\ sw'.task[id].st = "skipped")
                  => rules' = rules
            /\ (sw.task[id].st = "skipped" /\ SweepStep)
                  => rules'[id] = rules[id] /\ sw'.task[id].st \in {"skipped", "none"}
            /\ (sw.task[id].st \in {"get", "put"} /\ sw'.task[id] # sw.task[id])
                  => \A other \in RuleIds \ {id} :
                        sw.task[other].st \in {"get", "put"}
                           => sw'.task[other] = sw.task[other]
            /\ (SweepStep /\ rules'[id] # rules[id])
                  => sw.task[id].st = "put" /\ sw'.task[id].st = "reset"]_vars
    /\ [](sw.pc \in {"delete", "done"} =>
            \A id \in Enumerated : sw.task[id].st \in {"skipped", "putfailed", "reset"})

\* Of two enumerated rules the task of one failed, at its GET or at its PUT,
\* and the task of the other reset its rule
C13_Witness ==
    \E id, other \in Enumerated :
        /\ sw.task[id].st \in {"skipped", "putfailed"}
        /\ sw.task[other].st = "reset"
        /\ rules[other] = <<>>

\* C14: in a sweep no delete is issued while a launched reset task has not
\* settled, and the step that follows the settling of the tasks issues one
\* delete for every enumerated id, whether its task reset the rule, skipped
\* it or failed at its PUT, and none for any other id.
C14_DeletesAfterTasks ==
    /\ [](\A id \in RuleIds :
            sw.del[id] # "none" =>
               \A other \in RuleIds : sw.task[other].st \notin {"get", "put"})
    /\ [][(sw.pc = "await" /\ sw'.pc # "await") =>
            /\ \A id \in RuleIds : sw.task[id].st \notin {"get", "put"}
            /\ \A id \in RuleIds :
                  sw'.del[id] = IF id \in Enumerated THEN "pending" ELSE "none"]_vars
    /\ [](sw.pc \in {"delete", "done"} =>
            \A id \in Enumerated : sw.del[id] # "none")

\* The deletes of two enumerated ids are in flight, the task of one having
\* reset its rule and the task of the other not
C14_Witness ==
    /\ sw.pc = "delete"
    /\ \E id, other \in Enumerated :
          /\ sw.task[id].st = "reset" /\ sw.del[id] = "pending"
          /\ sw.task[other].st \in {"skipped", "putfailed"} /\ sw.del[other] = "pending"

\* ------------------------------------------------------------------------
\* Concurrent grants
\* ------------------------------------------------------------------------
\* C15: before any sweep has run, no rule id has two tracking writes: of the
\* puts handed to ctx.waitUntil no two are for the same rule id, and a rule
\* id whose entry is written has no put in flight.
C15_OneWritePerRule ==
    runs = 0 =>
        /\ \A p, q \in pending : p.key = q.key => p = q
        /\ \A p \in pending : kv[p.key] = NoEntry

\* The two fetch invocations race on one rule: distinct identities, the same
\* rule id, each payload built from the same expression e, which holds
\* neither identity, and both PUTs answered with success
Raced(g, h, e) ==
    /\ g # h
    /\ req[g].cfRuleId = req[h].cfRuleId
    /\ req[g].cfUserEmail # req[h].cfUserEmail
    /\ ~Includes(e, req[g].cfUserEmail) /\ ~Includes(e, req[h].cfUserEmail)
    /\ \A f \in {g, h} :
          /\ req[f].pc \in {"kv", "done"}
          /\ req[f].gatewayRuleUpdateStatus = PutSuccess
          /\ req[f].updatedRulePayload = MergeIdentity(e, req[f].cfUserEmail).identity

\* C16: when two grants with distinct identities for one rule id have both
\* built their payload from the same expression and both PUTs succeeded,
\* no sweep having started, the rule holds the payload of one of them as a
\* whole: one identity is in the expression and the other is not.
C16_LaterPutOverwrites ==
    \A g, h \in Grants : \A e \in InitialExpressions :
        (Raced(g, h, e) /\ runs = 0) =>
            LET id == req[g].cfRuleId IN
            /\ rules[id] \in {req[g].updatedRulePayload, req[h].updatedRulePayload}
            /\ ~(Includes(rules[id], req[g].cfUserEmail)
                 /\ Includes(rules[id], req[h].cfUserEmail))

\* Both grants read the empty expression, both PUTs succeeded, and the rule
\* holds the identity of the second grant only
C16_Witness ==
    /\ Raced(1, 2, <<>>)
    /\ rules[req[1].cfRuleId] = req[2].updatedRulePayload
    /\ Includes(rules[req[1].cfRuleId], req[2].cfUserEmail)
    /\ ~Includes(rules[req[1].cfRuleId], req[1].cfUserEmail)

\* ------------------------------------------------------------------------
\* The emails of an expression
\* ------------------------------------------------------------------------
\* The emails of the list of an expression, as the next merge reads them
\* (lines 68-72)
EmailsOf(expression) ==
    LET match == RegexMatch(expression) IN
    IF match.index = 0 THEN <<>> ELSE Split(match.group1)

PairwiseDistinct(emails) ==
    \A i, j \in 1..Len(emails) : i # j => emails[i] # emails[j]

\* C17: starting from the empty expression, whatever grants were merged into
\* it, the emails of the rule's expression are pairwise distinct.
C17_EmailsDistinct ==
    mIn = EmptyInput => PairwiseDistinct(EmailsOf(Current))

\* ------------------------------------------------------------------------
\* Tracking entries and live exceptions
\* ------------------------------------------------------------------------
\* No fetch or scheduled invocation and no waitUntil put is in flight
Quiescent ==
    /\ \A g \in Grants : req[g].pc \in {"idle", "returned"}
    /\ pending = {}
    /\ sw.pc \in {"idle", "done"}

\* The expression of the rule names an identity that a grant added
HoldsException(id) == \E email \in Identities : Includes(rules[id], email)

\* C18: in every quiescent state, with every binding and secret set, a rule
\* that holds an exception added by a grant has a tracking entry: the part
\* of the claim that says 'in particular'.
C18_ExceptionIsTracked ==
    (Quiescent /\ env = AllSet) =>
        \A id \in RuleIds : HoldsException(id) => kv[id] # NoEntry

\* ------------------------------------------------------------------------
\* The end of a sweep
\* ------------------------------------------------------------------------
\* C19: a sweep that has started finishes, whatever the list, the GETs, the
\* PUTs and the deletes answer, provided they answer; when it has finished no
\* reset task and no delete is left in flight.
C19_SweepFinishes ==
    /\ (sw.pc \notin {"idle", "done"}) ~> (sw.pc = "done")
    /\ [](sw.pc = "done" =>
            \A id \in RuleIds : /\ sw.task[id].st \notin {"get", "put"}
                                /\ sw.del[id] # "pending")

\* A sweep has finished of which the list threw after the first page, a
\* reset task failed and a delete was rejected
C19_Witness ==
    /\ sw.pc = "done" /\ ~sw.listed
    /\ \E id \in Enumerated :
          sw.task[id].st \in {"skipped", "putfailed"} /\ sw.del[id] = "failed"

\* The list of the running or finished sweep threw (lines 403-405): the
\* handler has left the loop without a page that said list_complete
ListFailed == SweepConfig(env) /\ sw.pc \in {"await", "delete", "done"} /\ ~sw.listed

====
